---- MODULE Spec2Model ----
(***************************************************************************)
(* State-machine model of eehelper.EEHelper (src/eehelper/eehelper.py):    *)
(* the collection builder (get_images), the temporal compositor            *)
(* (composite_image), the sensor harmonization maps and the Drive export   *)
(* loop (export_coll_to_drive / export_image_to_drive).                    *)
(*                                                                         *)
(* Python strings that the code parses or rewrites (reducer specs, raster  *)
(* identifiers) are sequences of one-character strings, so that replace,   *)
(* split, strip and int() are computed as the code computes them.          *)
(***************************************************************************)
EXTENDS Integers, Sequences, FiniteSets, TLC

VARIABLES
    self,       \* the EEHelper instance: its five configuration attributes
    op,         \* last EEHelper method called ("none" before any call)
    call,       \* arguments of the last get_images / composite_image call
    date_filter,\* get_images: the (start, end) handed to filterDate, None if not called
    filtered,   \* get_images: the collection after the three filters (line 387)
    coll,       \* collection returned by get_images
    out_img,    \* raster returned by composite_image
    reducer,    \* reducer resolved by composite_image
    warned,     \* warnings.warn messages emitted by the last call
    raised,     \* exception that ended the last call ("none" if it returned)
    pc,         \* export: position in export_coll_to_drive / export_image_to_drive
    args,       \* export: arguments of the running export call
    coll_list,  \* export: collection.toList(coll_size)
    coll_size,  \* export: collection.size().getInfo()
    img_indx,   \* export: loop index of export_coll_to_drive
    img_loc,    \* export: locals of the running export_image_to_drive
    tasks,      \* export: jobs started (task.start() returned), in start order
    files,      \* export: metadata sidecar files written, in write order
    stdout      \* export: what sys.stdout.write displayed

vars == <<self, op, call, date_filter, filtered, coll, out_img, reducer, warned, raised,
          pc, args, coll_list, coll_size, img_indx, img_loc, tasks, files, stdout>>

helperVars == <<self, op, call, date_filter, filtered, coll, out_img, reducer>>
exportVars == <<pc, args, coll_list, coll_size, img_indx, img_loc, tasks, files, stdout>>

\* Python's None is the empty tuple and a present value v is <<v>>, so that an
\* optional argument compares with None whatever its type
None == <<>>
Some(v) == <<v>>
Val(o) == o[1]

(***************************************************************************)
(* Bounds of the model.                                                    *)
(***************************************************************************)
\* longest collection handed to an operation
MaxColl == 2
\* pixels of the grid every raster of a collection shares
NPix == 2

(***************************************************************************)
(* Python str helpers over sequences of characters.                        *)
(***************************************************************************)
RECURSIVE ReplaceChar(_, _, _)
\* s.replace(a, b) for one-character a and b
ReplaceChar(s, a, b) ==
    IF s = <<>> THEN <<>>
    ELSE <<IF Head(s) = a THEN b ELSE Head(s)>> \o ReplaceChar(Tail(s), a, b)

Slash == "/"
Under == "_"

\* sub in s
Contains(s, sub) ==
    \E i \in 1..(Len(s) - Len(sub) + 1) : SubSeq(s, i, i + Len(sub) - 1) = sub

RECURSIVE Replace(_, _, _)
\* s.replace(old, new): every occurrence, scanning from the left
Replace(s, old, new) ==
    IF Len(s) < Len(old) THEN s
    ELSE IF SubSeq(s, 1, Len(old)) = old
    THEN new \o Replace(SubSeq(s, Len(old) + 1, Len(s)), old, new)
    ELSE <<Head(s)>> \o Replace(Tail(s), old, new)

RECURSIVE LStrip(_)
LStrip(s) == IF s # <<>> /\ Head(s) = " " THEN LStrip(Tail(s)) ELSE s

RECURSIVE RStrip(_)
RStrip(s) ==
    IF s # <<>> /\ s[Len(s)] = " " THEN RStrip(SubSeq(s, 1, Len(s) - 1)) ELSE s

\* s.strip()
Strip(s) == RStrip(LStrip(s))

RECURSIVE Split(_, _)
\* s.split(sep) for a one-character sep: the pieces between the separators
Split(s, sep) ==
    IF \A i \in 1..Len(s) : s[i] # sep THEN <<s>>
    ELSE LET i == CHOOSE k \in 1..Len(s) : s[k] = sep /\ \A j \in 1..(k - 1) : s[j] # sep
         IN  <<SubSeq(s, 1, i - 1)>> \o Split(SubSeq(s, i + 1, Len(s)), sep)

Digits == {"0", "1", "2", "3", "4", "5", "6", "7", "8", "9"}

DigitValue(c) ==
    CASE c = "0" -> 0 [] c = "1" -> 1 [] c = "2" -> 2 [] c = "3" -> 3 [] c = "4" -> 4
      [] c = "5" -> 5 [] c = "6" -> 6 [] c = "7" -> 7 [] c = "8" -> 8 [] c = "9" -> 9

DigitChar(d) == <<"0", "1", "2", "3", "4", "5", "6", "7", "8", "9">>[d + 1]

\* the digits of an int literal: digits, with single underscores between them
IsDigits(s) ==
    /\ s # <<>>
    /\ \A i \in 1..Len(s) : s[i] \in Digits \/ s[i] = Under
    /\ s[1] # Under /\ s[Len(s)] # Under
    /\ \A i \in 1..(Len(s) - 1) : ~(s[i] = Under /\ s[i + 1] = Under)

RECURSIVE DigitsValue(_, _)
DigitsValue(s, acc) ==
    IF s = <<>> THEN acc
    ELSE IF Head(s) = Under THEN DigitsValue(Tail(s), acc)
    ELSE DigitsValue(Tail(s), 10 * acc + DigitValue(Head(s)))

\* int(s): Some(n), or None where Python raises ValueError
ParseInt(s) ==
    LET t == Strip(s)
        signed == t # <<>> /\ Head(t) \in {"-", "+"}
        body == IF signed THEN Tail(t) ELSE t
    IN  IF ~IsDigits(body) THEN None
        ELSE Some(IF signed /\ Head(t) = "-" THEN -DigitsValue(body, 0)
                  ELSE DigitsValue(body, 0))

RECURSIVE NatToStr(_)
NatToStr(n) == IF n < 10 THEN <<DigitChar(n)>> ELSE NatToStr(n \div 10) \o <<DigitChar(n % 10)>>

\* str(n) for an int n
IntToStr(n) == IF n < 0 THEN <<"-">> \o NatToStr(-n) ELSE NatToStr(n)

(***************************************************************************)
(* Pixel values.  A valid pixel holds a rational <<n, d>> in lowest terms  *)
(* with d > 0 (an integer band holds <<n, 1>>); a masked pixel holds       *)
(* NoData.  The raster engine's arithmetic is pixelwise and a masked       *)
(* operand masks the result.                                               *)
(***************************************************************************)
NoData == <<>>

Abs(x) == IF x < 0 THEN -x ELSE x

RECURSIVE GCD(_, _)
GCD(a, b) == IF b = 0 THEN a ELSE GCD(b, a % b)

Rat(n, d) ==
    LET g == GCD(Abs(n), Abs(d))
        sg == IF d < 0 THEN -1 ELSE 1
    IN  <<(sg * n) \div g, (sg * d) \div g>>

Whole(n) == <<n, 1>>

RAdd(a, b) == Rat(a[1] * b[2] + b[1] * a[2], a[2] * b[2])
RSub(a, b) == Rat(a[1] * b[2] - b[1] * a[2], a[2] * b[2])
RMul(a, b) == Rat(a[1] * b[1], a[2] * b[2])
RLess(a, b) == a[1] * b[2] < b[1] * a[2]
RLeq(a, b) == a[1] * b[2] <= b[1] * a[2]
RAbs(a) == <<Abs(a[1]), a[2]>>
RNeg(a) == <<-a[1], a[2]>>
\* ee divide: division by zero returns 0
RDiv(a, b) == IF b[1] = 0 THEN Whole(0) ELSE Rat(a[1] * b[2], a[2] * b[1])
\* truncation toward zero
RTrunc(a) == IF a[1] >= 0 THEN a[1] \div a[2] ELSE -((-a[1]) \div a[2])

\* pixelwise binary operation: a masked operand masks the result
Lift2(f(_, _), a, b) == IF a = NoData \/ b = NoData THEN NoData ELSE f(a, b)
Lift1(f(_), a) == IF a = NoData THEN NoData ELSE f(a)

(***************************************************************************)
(* Rasters.  An image is a record                                          *)
(*   [id, time, inb, props, bands]                                         *)
(* with bands an ordered sequence of [name, px], px the band's pixels      *)
(* (one value per pixel of the grid 1..NPix); time is the acquisition      *)
(* date [y, m, d]; inb tells whether the footprint intersects the area of  *)
(* interest; props is the property bag (SATELLITE).                        *)
(***************************************************************************)
Pixels == 1..NPix

\* a band: its name, the suffix a reduction appended to the name (none on the
\* bands of a scene: <<>>), and its pixels
B(name, px) == [name |-> name, sfx |-> <<>>, px |-> px]

\* whether band b is called name
Named(b, name) == b.name = name /\ b.sfx = <<>>

BandNames(img) == [i \in 1..Len(img.bands) |-> <<img.bands[i].name, img.bands[i].sfx>>]

HasBand(img, name) == \E i \in 1..Len(img.bands) : Named(img.bands[i], name)

\* the pixels of the (first) band called name
Band(img, name) ==
    img.bands[CHOOSE i \in 1..Len(img.bands) :
                /\ Named(img.bands[i], name)
                /\ \A j \in 1..(i - 1) : ~Named(img.bands[j], name)].px

\* pixelwise map of every band
MapBands(img, f(_)) ==
    [img EXCEPT !.bands = [i \in 1..Len(img.bands) |->
        [img.bands[i] EXCEPT !.px = [p \in Pixels |-> Lift1(f, img.bands[i].px[p])]]]]

\* a raster on which the engine reports an error when it is evaluated
ErrorImage(e) == [error |-> e]
IsError(img) == "error" \in DOMAIN img

\* select that keeps the source names of the bands
SelectUnrenamed(img, from, to) ==
    IF IsError(img) THEN img
    ELSE IF \E i \in 1..Len(from) : ~HasBand(img, from[i])
    THEN ErrorImage("EEException")
    ELSE [img EXCEPT !.bands =
            [i \in 1..Len(from) |-> B(from[i], Band(img, from[i]))]]

\* img.select(from, to): the bands named in from, in that order, renamed to
\* the names in to; an absent band is the engine's error
Select(img, from, to) ==
    IF IsError(img) THEN img
    ELSE IF \E i \in 1..Len(from) : ~HasBand(img, from[i])
    THEN ErrorImage("EEException")
    ELSE [img EXCEPT !.bands =
            [i \in 1..Len(from) |-> B(to[i], Band(img, from[i]))]]

\* a.addBands(b) for bands of b whose names a does not carry
AddBands(a, b) ==
    IF IsError(a) THEN a ELSE IF IsError(b) THEN b
    ELSE [a EXCEPT !.bands = a.bands \o b.bands]

\* a cast that rounds to the nearest integer (a half goes up)
ToInt16Rounded(v) ==
    LET t == (2 * v[1] + v[2]) \div (2 * v[2])
    IN  Whole(IF t > 32767 THEN 32767 ELSE IF t < -32768 THEN -32768 ELSE t)

\* image.int16(): the cast drops the fraction and saturates at the type's range
ToInt16(v) ==
    LET t == RTrunc(v)
    IN  Whole(IF t > 32767 THEN 32767 ELSE IF t < -32768 THEN -32768 ELSE t)

Int16(img) == IF IsError(img) THEN img ELSE MapBands(img, ToInt16)

\* image.float().multiply(gain).add(offset), gain in 1/100000
Affine(img, gain, offset) ==
    IF IsError(img) THEN img
    ELSE MapBands(img, LAMBDA v : RAdd(RMul(v, Rat(gain, 100000)), Whole(offset)))

(***************************************************************************)
(* Sensor harmonization (lines 210-282).                                   *)
(***************************************************************************)
CanonicalBands == <<"BLUE", "GREEN", "RED", "NIR", "SWIR1", "SWIR2", "PIXEL_QA", "RADSAT_QA">>

\* one corrected band: img.select([b], [name]).float().multiply(g).add(o).int16()
CorrBand(img, b, name, gain, offset) ==
    Int16(Affine(Select(img, <<b>>, <<name>>), gain, offset))

\* ls8_sr_corr, lines 222-231
ls8_sr_corr(img) ==
    AddBands(AddBands(AddBands(AddBands(AddBands(AddBands(AddBands(
        CorrBand(img, "B2", "BLUE", 88500, 183),
        CorrBand(img, "B3", "GREEN", 93170, 123)),
        CorrBand(img, "B4", "RED", 93720, 123)),
        CorrBand(img, "B5", "NIR", 83390, 448)),
        CorrBand(img, "B6", "SWIR1", 86390, 306)),
        CorrBand(img, "B7", "SWIR2", 91650, 116)),
        Int16(Select(img, <<"pixel_qa">>, <<"PIXEL_QA">>))),
        Int16(Select(img, <<"radsat_qa">>, <<"RADSAT_QA">>)))

\* ls5_sr_corr, lines 245-254
ls5_sr_corr(img) ==
    AddBands(AddBands(AddBands(AddBands(AddBands(AddBands(AddBands(
        CorrBand(img, "B1", "BLUE", 91996, 37),
        CorrBand(img, "B2", "GREEN", 92764, 84)),
        CorrBand(img, "B3", "RED", 88810, 98)),
        CorrBand(img, "B4", "NIR", 95057, 38)),
        CorrBand(img, "B5", "SWIR1", 96525, 29)),
        CorrBand(img, "B7", "SWIR2", 99601, 20)),
        Int16(Select(img, <<"pixel_qa">>, <<"PIXEL_QA">>))),
        Int16(Select(img, <<"radsat_qa">>, <<"RADSAT_QA">>)))

\* the rename-only branch of lines 270-278
ls7_sr_rename(img) ==
    Int16(Select(img, <<"B1", "B2", "B3", "B4", "B5", "B7", "pixel_qa", "radsat_qa">>,
                 CanonicalBands))

\* ee.String(a).compareTo(b): 0 when equal, non-zero otherwise (only its
\* truth value is used)
CompareTo(a, b) == IF a = b THEN 0 ELSE 1

\* ee.Algorithms.If(condition, trueCase, falseCase): a non-zero number is true
AlgorithmsIf(cond, t, f) == IF cond # 0 THEN t ELSE f

\* ls_sr_band_correction, lines 265-282
ls_sr_band_correction(img) ==
    IF IsError(img) THEN img
    ELSE AlgorithmsIf(CompareTo(img.props.SATELLITE, "LANDSAT_8"),
                      AlgorithmsIf(CompareTo(img.props.SATELLITE, "LANDSAT_5"),
                                   ls7_sr_rename(img),
                                   ls5_sr_corr(img)),
                      ls8_sr_corr(img))

RECURSIVE BitAnd(_, _)
\* bitwise and of two naturals
BitAnd(a, b) ==
    IF a = 0 \/ b = 0 THEN 0
    ELSE 2 * BitAnd(a \div 2, b \div 2) + (IF a % 2 = 1 /\ b % 2 = 1 THEN 1 ELSE 0)

\* pixelwise operation of two single-band images; the left band's name is kept
Bin(a, b, f(_, _)) ==
    IF IsError(a) THEN a ELSE IF IsError(b) THEN b
    ELSE [a EXCEPT !.bands = <<[a.bands[1] EXCEPT !.px =
            [p \in Pixels |-> Lift2(f, a.bands[1].px[p], b.bands[1].px[p])]]>>]

\* pixelwise operation with a constant on every band
Const(img, f(_, _), c) ==
    IF IsError(img) THEN img ELSE MapBands(img, LAMBDA v : f(v, c))

One(img, name) == Select(img, <<name>>, <<name>>)

\* select([0], [name]): rename the first band
Rename0(img, name) ==
    IF IsError(img) THEN img
    ELSE [img EXCEPT !.bands = <<B(name, img.bands[1].px)>>]

\* a mask that writes zero into the pixels it hides
UpdateMaskZero(img, mask) ==
    IF IsError(img) THEN img ELSE IF IsError(mask) THEN mask
    ELSE [img EXCEPT !.bands = [i \in 1..Len(img.bands) |->
            [img.bands[i] EXCEPT !.px = [p \in Pixels |->
                        IF mask.bands[1].px[p] = NoData \/ mask.bands[1].px[p][1] = 0
                        THEN Whole(0) ELSE img.bands[i].px[p]]]]]

\* img.updateMask(mask): a pixel stays valid where the single-band mask is
\* valid and non-zero, in every band
UpdateMask(img, mask) ==
    IF IsError(img) THEN img ELSE IF IsError(mask) THEN mask
    ELSE [img EXCEPT !.bands = [i \in 1..Len(img.bands) |->
            [img.bands[i] EXCEPT !.px = [p \in Pixels |->
                        IF mask.bands[1].px[p] = NoData \/ mask.bands[1].px[p][1] = 0
                        THEN NoData ELSE img.bands[i].px[p]]]]]

\* ls_sr_only_clear, lines 292-300: clearmask = 2 ** 1
ls_sr_only_clear(img) ==
    LET qa_mask == Const(One(img, "PIXEL_QA"), LAMBDA v, c : Whole(BitAnd(RTrunc(v), c)), 2)
        ra_mask == Const(One(img, "RADSAT_QA"),
                         LAMBDA v, c : Whole(IF v = c THEN 1 ELSE 0), Whole(0))
    IN  UpdateMask(UpdateMask(img, qa_mask), ra_mask)

(***************************************************************************)
(* Index engine (lines 117-195).                                           *)
(***************************************************************************)
\* img.normalizedDifference([a, b]): (a - b) / (a + b); the engine masks the
\* pixel when an input is negative, and a zero sum has no quotient
NormalizedDifference(img, a, b) ==
    Bin(One(img, a), One(img, b),
        LAMBDA x, y : IF x[1] < 0 \/ y[1] < 0 \/ RAdd(x, y)[1] = 0 THEN NoData
                      ELSE RDiv(RSub(x, y), RAdd(x, y)))

ndvi(sf, img) == Const(Rename0(NormalizedDifference(img, "NIR", "RED"), "NDVI"), RMul, sf)
ndwi(sf, img) == Const(Rename0(NormalizedDifference(img, "NIR", "SWIR2"), "NDWI"), RMul, sf)
nbr(sf, img) == Const(Rename0(NormalizedDifference(img, "NIR", "SWIR1"), "NBR"), RMul, sf)

vari(sf, img) ==
    Const(Rename0(Bin(Bin(One(img, "RED"), One(img, "GREEN"), RSub),
                      Bin(Bin(One(img, "RED"), One(img, "GREEN"), RAdd),
                          One(img, "BLUE"), RSub),
                      RDiv), "VARI"), RMul, sf)

evi(sf, img) ==
    Const(Const(Rename0(
        Bin(Bin(One(img, "NIR"), One(img, "RED"), RSub),
            Const(Bin(Bin(One(img, "NIR"), Const(One(img, "RED"), RMul, Whole(6)), RAdd),
                      Const(One(img, "BLUE"), RMul, Rat(15, 2)), RSub),
                  RAdd, Whole(1)),
            RDiv), "EVI"), RMul, Rat(5, 2)), RMul, sf)

savi(sf, const, img) ==
    Int16(Const(Rename0(
        Bin(Const(Bin(One(img, "NIR"), One(img, "RED"), RSub), RMul, RAdd(Whole(1), const)),
            Const(Bin(One(img, "NIR"), One(img, "RED"), RAdd), RAdd, const),
            RDiv), "SAVI"), RMul, sf))

\* str.lower() on the names the model hands to it
Lower(name) ==
    CASE name = "NDVI" -> "ndvi" [] name = "NDWI" -> "ndwi" [] name = "NBR" -> "nbr"
      [] name = "VARI" -> "vari" [] name = "EVI" -> "evi" [] name = "SAVI" -> "savi"
      [] name = "XYZ" -> "xyz" [] name = "CONST" -> "const"
      [] OTHER -> name

IndexMethods == {"ndvi", "ndwi", "nbr", "vari", "evi", "savi"}
\* the methods of EEHelper that take one image and return an image
MapMethods == IndexMethods \cup {"add_indices", "ls8_sr_corr", "ls5_sr_corr",
                                 "ls_sr_band_correction", "ls_sr_only_clear"}
DataAttributes == {"const", "scale_factor", "index_list", "composite_index",
                   "composite_function"}

\* getattr(self, name, None), as the kind of thing found: a per-image method,
\* a data attribute that is not None, or None
GetAttr(slf, name) ==
    IF name \in MapMethods THEN "map"
    ELSE IF name \in {"const", "scale_factor"} THEN "data"
    ELSE IF name \in DataAttributes /\ slf[name] # None THEN "data"
    ELSE "None"

\* func(temp_image) for an index method
IndexBand(slf, name, img) ==
    CASE name = "ndvi" -> ndvi(slf.scale_factor, img)
      [] name = "ndwi" -> ndwi(slf.scale_factor, img)
      [] name = "nbr" -> nbr(slf.scale_factor, img)
      [] name = "vari" -> vari(slf.scale_factor, img)
      [] name = "evi" -> evi(slf.scale_factor, img)
      [] name = "savi" -> savi(slf.scale_factor, slf.const, img)

RECURSIVE AddIndexBands(_, _, _, _)
\* the loop of lines 190-193 over the index names still to add
AddIndexBands(slf, names, temp_image, in_image) ==
    IF names = <<>> THEN in_image
    ELSE AddIndexBands(slf, Tail(names), temp_image,
            IF Lower(Head(names)) \in IndexMethods
            THEN AddBands(in_image, IndexBand(slf, Lower(Head(names)), temp_image))
            ELSE in_image)

\* whether the loop of lines 190-193 calls an attribute that is not callable:
\* getattr finds a data attribute under the lowered name, and func(temp_image)
\* raises TypeError
IndexRaises(slf) ==
    \E i \in 1..Len(Val(slf.index_list)) :
        GetAttr(slf, Lower(Val(slf.index_list)[i])) = "data"

\* add_indices, lines 188-195, for an index_list whose every name finds an
\* index method or nothing (IndexRaises tells when a name finds a data
\* attribute)
add_indices(slf, in_image) ==
    AddIndexBands(slf, Val(slf.index_list),
                  Const(in_image, RDiv, slf.scale_factor), in_image)

\* EEHelper(): the attributes __init__ stores for its default arguments
InitSelf ==
    [ const |-> Rat(1, 2), scale_factor |-> Whole(1), index_list |-> None,
      composite_index |-> Some("NDVI"), composite_function |-> Some(<<"m", "e", "d", "i", "a", "n">>) ]

(***************************************************************************)
(* Collection builder: get_images (lines 346-406).                         *)
(***************************************************************************)
\* collection.filterBounds(geometry): the rasters that intersect it
filterBounds(q) == SelectSeq(q, LAMBDA r : r.inb)

\* ordered collections of distinct rasters, at most n long
InjSeqs(S, n) ==
    UNION { { q \in [1..k -> S] : \A i, j \in 1..k : i # j => q[i] # q[j] } : k \in 0..n }

Date(y, m, d) == [y |-> y, m |-> m, d |-> d]

IsLeap(y) == (y % 4 = 0 /\ y % 100 # 0) \/ y % 400 = 0

DaysIn(y, m) ==
    IF m = 2 THEN (IF IsLeap(y) THEN 29 ELSE 28)
    ELSE IF m \in {4, 6, 9, 11} THEN 30 ELSE 31

RECURSIVE DaysBefore(_, _)
DaysBefore(y, m) == IF m = 1 THEN 0 ELSE DaysBefore(y, m - 1) + DaysIn(y, m - 1)

\* the 1-based day of the year of a date
DayOfYear(t) == DaysBefore(t.y, t.m) + t.d

DateLess(a, b) ==
    \/ a.y < b.y
    \/ a.y = b.y /\ a.m < b.m
    \/ a.y = b.y /\ a.m = b.m /\ a.d < b.d

\* coll.filterDate(start, end): start inclusive, end (its midnight) exclusive
filterDate(q, start, end) ==
    SelectSeq(q, LAMBDA img : ~DateLess(img.time, start) /\ DateLess(img.time, end))

\* calendarRange with the end of the range left out
InCalendarRangeHalfOpen(doy, start, end) ==
    IF start <= end THEN start <= doy /\ doy < end
    ELSE doy >= start \/ doy < end

\* ee.Filter.calendarRange(start, end) on day_of_year: both ends inclusive,
\* and a range with end < start wraps around the year
InCalendarRange(doy, start, end) ==
    IF start <= end THEN start <= doy /\ doy <= end
    ELSE doy >= start \/ doy <= end

filterCalendarRange(q, start, end) ==
    SelectSeq(q, LAMBDA img : InCalendarRange(DayOfYear(img.time), start, end))

\* lines 378-380 with the absolute range winning over year
DateRangeAbsoluteFirst(year, start_date, end_date) ==
    IF start_date # None /\ end_date # None THEN <<start_date, end_date>>
    ELSE IF year # None
    THEN <<Some(Date(Val(year), 1, 1)), Some(Date(Val(year), 12, 31))>>
    ELSE <<start_date, end_date>>

\* lines 378-380: the start_date and end_date in force after the year is expanded
DateRange(year, start_date, end_date) ==
    IF year # None
    THEN <<Some(Date(Val(year), 1, 1)), Some(Date(Val(year), 12, 31))>>
    ELSE <<start_date, end_date>>

\* lines 382-385: the spatial and the date-range filter
PreFiltered(c) ==
    LET dr == DateRange(c.year, c.start_date, c.end_date)
        q1 == IF c.bounds # None THEN filterBounds(c.collection) ELSE c.collection
    IN  IF dr[1] # None /\ dr[2] # None THEN filterDate(q1, Val(dr[1]), Val(dr[2]))
        ELSE q1

\* lines 382-387: the three filters
Filtered(c) == filterCalendarRange(PreFiltered(c), c.start_julian, c.end_julian)

\* func(image) for a per-image method of the helper
Apply(slf, name, img) ==
    CASE name = "ls_sr_band_correction" -> ls_sr_band_correction(img)
      [] name = "ls_sr_only_clear" -> ls_sr_only_clear(img)
      [] name = "ls8_sr_corr" -> ls8_sr_corr(img)
      [] name = "ls5_sr_corr" -> ls5_sr_corr(img)
      [] name = "add_indices" -> add_indices(slf, img)
      [] name \in IndexMethods -> IndexBand(slf, name, img)

\* coll.map(func)
Map(slf, name, q) == [i \in 1..Len(q) |-> Apply(slf, name, q[i])]

\* lines 392-398 storing the arguments whatever function is mapped
ConfigureAlways(slf, value, index_list, scale_factor) ==
    [slf EXCEPT !.index_list = IF index_list # None THEN index_list ELSE @,
                !.scale_factor = IF scale_factor # None THEN Val(scale_factor) ELSE @]

\* lines 392-398: what map='add_indices' stores on the instance
Configure(slf, value, index_list, scale_factor) ==
    IF value # "add_indices" THEN slf
    ELSE [slf EXCEPT !.index_list = IF index_list # None THEN index_list ELSE @,
                     !.scale_factor = IF scale_factor # None THEN Val(scale_factor) ELSE @]

\* the exception coll.map(func) raises while it builds the mapped expression:
\* func is not callable, or add_indices iterates over an index_list of None
\* or calls an attribute that is not callable
MapRaises(slf, value) ==
    \/ GetAttr(slf, value) = "data"
    \/ value = "add_indices" /\ slf.index_list = None
    \/ value = "add_indices" /\ slf.index_list # None /\ IndexRaises(slf)

\* line 405: 'The function {} is not implemented'.format(str(key))
NotImplemented(name) == [msg |-> "The function {} is not implemented", arg |-> name]

\* state of the loop of lines 390-405: the instance, the collection, the
\* warnings and the exception so far
RECURSIVE Kwargs(_, _, _)
Kwargs(kw, c, st) ==
    IF kw = <<>> \/ st.raised # "none" THEN st
    ELSE LET key == Head(kw)[1]
             value == Head(kw)[2]
         IN  IF key = "map"
             THEN LET slf == Configure(st.self, value, c.index_list, c.scale_factor)
                  IN  Kwargs(Tail(kw), c,
                        IF GetAttr(slf, value) = "None"
                        THEN [st EXCEPT !.self = slf]
                        ELSE IF MapRaises(slf, value)
                        THEN [st EXCEPT !.self = slf, !.raised = "TypeError"]
                        ELSE [st EXCEPT !.self = slf, !.coll = Map(slf, value, st.coll)])
             ELSE Kwargs(Tail(kw), c,
                    [st EXCEPT !.warned = Append(@, NotImplemented(key))])

get_images(c) ==
    /\ pc = "idle"
    /\ LET dr == DateRange(c.year, c.start_date, c.end_date)
           st == Kwargs(c.kwargs, c,
                        [self |-> self, coll |-> Filtered(c), warned |-> <<>>,
                         raised |-> "none"])
       IN  /\ op' = "get_images"
           /\ call' = Some(c)
           /\ date_filter' = IF dr[1] # None /\ dr[2] # None THEN Some(dr) ELSE None
           /\ filtered' = Filtered(c)
           /\ self' = st.self
           /\ warned' = st.warned
           /\ raised' = st.raised
           /\ coll' = IF st.raised = "none" THEN st.coll ELSE <<>>
    /\ UNCHANGED <<out_img, reducer>>
    /\ UNCHANGED exportVars

(***************************************************************************)
(* The source imagery get_images is called on: surface-reflectance scenes  *)
(* of the three supported sensors and of one unsupported sensor, with the  *)
(* native band names, and two scenes already in the canonical schema.      *)
(***************************************************************************)
NativeBands == <<"B1", "B2", "B3", "B4", "B5", "B6", "B7", "pixel_qa", "radsat_qa">>

\* pixel p of native band k of the scene with reflectance level base.  The
\* pixel_qa values alternate clear (322, bit 1 set) / not clear (328) along the
\* pixels, starting with one or the other by scene; radsat_qa tells pixel 2
\* saturated; one scene has a masked pixel in one reflectance band.
NativePixel(base, k, p) ==
    IF k <= 7 THEN (IF base = 4000 /\ k = 4 /\ p = 1 THEN NoData
                    ELSE Whole(base + 100 * (k - 1) + (p - 1)))
    ELSE IF k = 8 THEN Whole(IF (p + base \div 1000) % 2 = 1 THEN 322 ELSE 328)
    ELSE Whole(IF p = 2 THEN 2 ELSE 0)

Scene(id, sat, time, inb, base) ==
    [ id |-> id, time |-> time, inb |-> inb, props |-> [SATELLITE |-> sat],
      bands |-> [k \in 1..Len(NativeBands) |->
                    B(NativeBands[k], [p \in Pixels |-> NativePixel(base, k, p)])] ]

Catalogue ==
    { Scene("s1", "LANDSAT_8", Date(2019, 1, 1), TRUE, 0),
      Scene("s2", "LANDSAT_5", Date(2019, 12, 31), TRUE, 1000),
      Scene("s3", "LANDSAT_7", Date(2020, 12, 31), TRUE, 2000),
      Scene("s4", "LANDSAT_4", Date(2020, 7, 18), TRUE, 3000),
      ls8_sr_corr(Scene("s5", "LANDSAT_8", Date(2020, 6, 30), FALSE, 4000)),
      ls7_sr_rename(Scene("s6", "LANDSAT_7", Date(2020, 12, 30), TRUE, 5000)) }

SourceCollections == InjSeqs(Catalogue, MaxColl)

\* keyword arguments after the named ones, in the order given
KwargsGiven ==
    { <<>>,
      << <<"map", "ls_sr_band_correction">> >>,
      << <<"map", "ls_sr_only_clear">> >>,
      << <<"map", "add_indices">> >>,
      << <<"map", "bogus">> >>,
      << <<"map", "const">> >>,
      << <<"map", "index_list">> >>,
      << <<"reduce", "mean">> >>,
      << <<"reduce", "mean">>, <<"map", "ndvi">> >> }

IndexArgs ==
    { [index_list |-> None, scale_factor |-> None],
      [index_list |-> Some(<<"NDVI", "XYZ", "SAVI">>), scale_factor |-> None],
      [index_list |-> Some(<<"NDVI", "CONST">>), scale_factor |-> None],
      [index_list |-> Some(<<"EVI">>), scale_factor |-> Some(Whole(10000))] }

DateArgs ==
    { [year |-> None, start_date |-> None, end_date |-> None],
      [year |-> None, start_date |-> Some(Date(2019, 6, 1)), end_date |-> Some(Date(2021, 1, 1))],
      [year |-> None, start_date |-> Some(Date(2019, 6, 1)), end_date |-> None],
      [year |-> Some(2020), start_date |-> None, end_date |-> None],
      [year |-> Some(2020), start_date |-> Some(Date(2019, 6, 1)), end_date |-> Some(Date(2021, 1, 1))] }

JulianArgs ==
    { [start_julian |-> 1, end_julian |-> 365],
      [start_julian |-> 1, end_julian |-> 366],
      [start_julian |-> 150, end_julian |-> 250] }

\* index_list and scale_factor with the keyword arguments they are given
\* with: any of them with map='add_indices' or with no keyword argument, none
\* of them with the other keyword arguments
IndexKwargs ==
    { xk \in IndexArgs \X KwargsGiven :
        \/ xk[2] \in { <<>>, << <<"map", "add_indices">> >> }
        \/ xk[1] = [index_list |-> None, scale_factor |-> None] }

GetImagesCalls ==
    { [collection |-> q, bounds |-> b, year |-> d.year, start_date |-> d.start_date,
       end_date |-> d.end_date, start_julian |-> j.start_julian,
       end_julian |-> j.end_julian, index_list |-> xk[1].index_list,
       scale_factor |-> xk[1].scale_factor, kwargs |-> xk[2]] :
      q \in SourceCollections, b \in {None, Some("aoi")}, d \in DateArgs,
      j \in JulianArgs, xk \in IndexKwargs }

(***************************************************************************)
(* Temporal compositor: composite_image (lines 408-471).                   *)
(***************************************************************************)
Reducer(kind, lo, hi) == [kind |-> kind, lo |-> lo, hi |-> hi]
Plain(kind) == Reducer(kind, 0, 0)

\* outcome of the reducer resolution: the reducer, whether the fallback
\* warning was given, and the exception raised ("none" if none)
Resolved(r, w) == [reducer |-> Some(r), warned |-> w, raised |-> "none"]
Failed(e) == [reducer |-> None, warned |-> FALSE, raised |-> e]

\* lines 438-444 without the exchange of inverted bounds
IntervalMeanUnordered(parts) ==
    IF Len(parts) # 2 THEN Failed("ValueError")
    ELSE IF ParseInt(parts[1]) = None \/ ParseInt(parts[2]) = None THEN Failed("ValueError")
    ELSE Resolved(Reducer("intervalMean", Val(ParseInt(parts[1])), Val(ParseInt(parts[2]))),
                  FALSE)

\* lines 440-444: [int(elem) for elem in temp_str.split('_')], unpacked into
\* two bounds and put in order
IntervalMean(parts) ==
    IF Len(parts) # 2 THEN Failed("ValueError")
    ELSE IF ParseInt(parts[1]) = None \/ ParseInt(parts[2]) = None THEN Failed("ValueError")
    ELSE LET min_pctl == Val(ParseInt(parts[1]))
             max_pctl == Val(ParseInt(parts[2]))
         IN  IF min_pctl > max_pctl
             THEN Resolved(Reducer("intervalMean", max_pctl, min_pctl), FALSE)
             ELSE Resolved(Reducer("intervalMean", min_pctl, max_pctl), FALSE)

\* the else branch of lines 445-448 falling back to the mean
FallbackMean == Resolved(Plain("mean"), TRUE)

\* lines 445-448: warn and use the median
Fallback == Resolved(Plain("median"), TRUE)

\* lines 425-448: the reducer for self.composite_function
ResolveReducer(fn) ==
    IF fn = None THEN Failed("TypeError")
    ELSE LET f == Val(fn) IN
         IF f = <<"m", "e", "a", "n">> \/ f = <<"r", "m", "s">> THEN Resolved(Plain("mean"), FALSE)
         ELSE IF f = <<"m", "e", "d", "i", "a", "n">> THEN Resolved(Plain("median"), FALSE)
         ELSE IF f = <<"m", "i", "n">> THEN Resolved(Plain("min"), FALSE)
         ELSE IF f = <<"m", "a", "x">> THEN Resolved(Plain("max"), FALSE)
         ELSE IF f = <<"s", "u", "m">> \/ f = <<"d", "i", "a", "g">> THEN Resolved(Plain("sum"), FALSE)
         ELSE IF Contains(f, <<"p", "e", "r", "c", "e", "n", "t", "i", "l", "e">>)
         THEN LET pctl == ParseInt(Strip(Replace(f, <<"p", "e", "r", "c", "e", "n", "t", "i", "l", "e", "_">>, <<>>)))
              IN  IF pctl = None THEN Failed("ValueError")
                  ELSE Resolved(Reducer("percentile", Val(pctl), Val(pctl)), FALSE)
         ELSE IF Contains(f, <<"i", "n", "t", "e", "r", "v", "a", "l", "_", "m", "e", "a", "n">>)
         THEN IntervalMean(Split(Strip(Replace(f, <<"i", "n", "t", "e", "r", "v", "a", "l", "_", "m", "e", "a", "n", "_">>, <<>>)), Under))
         ELSE Fallback

RECURSIVE Insert(_, _)
Insert(srt, v) ==
    IF srt = <<>> THEN <<v>>
    ELSE IF RLeq(v, Head(srt)) THEN <<v>> \o srt
    ELSE <<Head(srt)>> \o Insert(Tail(srt), v)

RECURSIVE Sort(_)
\* the values in ascending order
Sort(vals) == IF vals = <<>> THEN <<>> ELSE Insert(Sort(Tail(vals)), Head(vals))

RECURSIVE Sum(_)
Sum(vals) == IF vals = <<>> THEN Whole(0) ELSE RAdd(Head(vals), Sum(Tail(vals)))

Mean(vals) == RDiv(Sum(vals), Whole(Len(vals)))

\* rank (1-based, nearest rank) of the p-th percentile among n sorted values
Rank(p, n) == IF (p * n + 99) \div 100 < 1 THEN 1 ELSE (p * n + 99) \div 100

\* a reducer applied to the valid values of one pixel of one band across the
\* series; no valid value gives a masked pixel
ReduceVals(vals, r) ==
    LET n == Len(vals)
        srt == Sort(vals)
    IN  IF n = 0 THEN NoData
        ELSE CASE r.kind = "mean" -> Mean(vals)
               [] r.kind = "sum" -> Sum(vals)
               [] r.kind = "min" -> srt[1]
               [] r.kind = "max" -> srt[n]
               [] r.kind = "median" ->
                    IF n % 2 = 1 THEN srt[(n + 1) \div 2]
                    ELSE Mean(<<srt[n \div 2], srt[n \div 2 + 1]>>)
               [] r.kind = "percentile" -> srt[Rank(r.lo, n)]
               [] r.kind = "intervalMean" -> Mean(SubSeq(srt, Rank(r.lo, n), Rank(r.hi, n)))

\* the engine evaluates a percentile or interval reducer only for bounds in 0..100
ValidReducer(r) ==
    r.kind \in {"percentile", "intervalMean"} => r.lo \in 0..100 /\ r.hi \in 0..100

\* the suffix reduce() appends to a band name
Suffix(r) == IF r.kind = "percentile" THEN <<"p", r.lo>>
             ELSE IF r.kind = "intervalMean" THEN <<"mean">> ELSE <<r.kind>>

\* the valid values of pixel p of the b-th band across the series q
ValidVals(q, b, p) ==
    SelectSeq([i \in 1..Len(q) |-> q[i].bands[b].px[p]], LAMBDA v : v # NoData)

\* collection.reduce(reducer): band by band and pixel by pixel
Reduce(q, r) ==
    IF \E i \in 1..Len(q) : IsError(q[i])
    THEN ErrorImage("EEException")
    ELSE IF ~ValidReducer(r) THEN ErrorImage("EEException")
    ELSE IF q = <<>> THEN [bands |-> <<>>]
    ELSE [bands |-> [b \in 1..Len(q[1].bands) |->
            [name |-> q[1].bands[b].name,
             sfx |-> q[1].bands[b].sfx \o Suffix(r),
             px |-> [p \in Pixels |-> ReduceVals(ValidVals(q, b, p), r)]]]]

\* line 424 with the multiplication left out
Unscaled(q, sf) == q

\* line 424: every image multiplied by scale_factor
Scaled(q, sf) == [i \in 1..Len(q) |-> Const(q[i], RMul, sf)]

\* collection.select(names)
SelectAll(q, names) == [i \in 1..Len(q) |-> Select(q[i], names, names)]

\* lines 462-464 with the distance itself as the score
WithDistFarthest(img, index, index_band) ==
    AddBands(img, Rename0(Bin(One(img, index), index_band,
                              LAMBDA x, y : RAbs(RSub(x, y))), "quality"))

\* lines 462-464: the image with its 'quality' band, -|index - index_band|
WithDist(img, index, index_band) ==
    AddBands(img, Rename0(Bin(One(img, index), index_band,
                              LAMBDA x, y : RNeg(RAbs(RSub(x, y)))), "quality"))

\* the images with a valid quality at pixel p, and those of them whose quality
\* no other exceeds
Candidates(q, p) == {i \in 1..Len(q) : Band(q[i], "quality")[p] # NoData}
Best(q, p) ==
    {i \in Candidates(q, p) :
        \A j \in Candidates(q, p) : RLeq(Band(q[j], "quality")[p], Band(q[i], "quality")[p])}

\* with_dist.qualityMosaic('quality'): every pixel takes all its bands from
\* one image of highest quality there (the engine's pick among equals is not
\* fixed here: every pick is a possible result); a pixel no image has a valid
\* quality for is masked
QualityMosaics(q) ==
    IF \E i \in 1..Len(q) : IsError(q[i]) THEN {ErrorImage("EEException")}
    ELSE IF q = <<>> THEN {[bands |-> <<>>]}
    ELSE { [bands |-> [b \in 1..Len(q[1].bands) |->
              [q[1].bands[b] EXCEPT !.px =
                  [p \in Pixels |-> IF pick[p] = 0 THEN NoData
                                    ELSE q[pick[p]].bands[b].px[p]]]]] :
           pick \in { f \in [Pixels -> 0..Len(q)] :
                        \A p \in Pixels : IF Best(q, p) = {} THEN f[p] = 0
                                          ELSE f[p] \in Best(q, p) } }

\* line 466: out_img.select(out_img.bandNames().removeAll(['quality']))
DropQuality(img) ==
    IF IsError(img) THEN img
    ELSE [img EXCEPT !.bands = SelectSeq(img.bands, LAMBDA b : ~Named(b, "quality"))]

\* out_img.clip(region): the pixels outside the region are masked
Clip(img, region) ==
    IF IsError(img) THEN img
    ELSE [img EXCEPT !.bands = [i \in 1..Len(img.bands) |->
            [img.bands[i] EXCEPT !.px =
                [p \in Pixels |-> IF p \in region THEN img.bands[i].px[p] ELSE NoData]]]]

\* the map of line 455 left out
Unsquared(img) == img

\* line 455: ee.Image(x).multiply(ee.Image(x))
Square(img) ==
    IF IsError(img) THEN img ELSE MapBands(img, LAMBDA v : RMul(v, v))

\* lines 424 and 450-471: the rasters composite_image can return for reducer r
Composites(slf, c, r) ==
    LET scaled == Scaled(c.collection, slf.scale_factor)
        collection == IF c.band_names # None THEN SelectAll(scaled, Val(c.band_names))
                      ELSE scaled
        outs ==
            IF slf.composite_index = None
            THEN IF slf.composite_function \in {Some(<<"r", "m", "s">>), Some(<<"d", "i", "a", "g">>)}
                 THEN {Reduce([i \in 1..Len(collection) |-> Square(collection[i])], r)}
                 ELSE {Reduce(collection, r)}
            ELSE LET index == Val(slf.composite_index)
                     index_band == Reduce(SelectAll(collection, <<index>>), r)
                     with_dist == [i \in 1..Len(collection) |->
                                      WithDist(collection[i], index, index_band)]
                 IN  {DropQuality(m) : m \in QualityMosaics(with_dist)}
    IN  IF c.region # None THEN {Clip(o, Val(c.region)) : o \in outs} ELSE outs

\* lines 446-447
FallbackWarning == [msg |-> "Supplied reducer {} is not implemented. Using default: median"]

\* composite_image, lines 408-471
composite_image(c) ==
    /\ pc = "idle"
    /\ LET res == ResolveReducer(self.composite_function) IN
         /\ op' = "composite_image"
         /\ call' = Some(c)
         /\ reducer' = res.reducer
         /\ raised' = res.raised
         /\ warned' = IF res.warned THEN <<FallbackWarning>> ELSE <<>>
         /\ IF res.raised # "none" THEN out_img' = None
            ELSE \E o \in Composites(self, c, Val(res.reducer)) : out_img' = Some(o)
    /\ UNCHANGED <<self, date_filter, filtered, coll>>
    /\ UNCHANGED exportVars

(***************************************************************************)
(* The series composite_image is called on: observations with a reference  *)
(* band NDVI and a band RED whose values tell the observations apart.      *)
(***************************************************************************)
ObsNDVI(k, p) ==
    CASE k = 1 -> Whole(p)
      [] k = 2 -> Whole(5 - 2 * p)
      [] k = 3 -> Whole(2)
      [] k = 4 -> IF p = 1 THEN NoData ELSE Whole(6)
      [] k = 5 -> Whole(-3)

Obs(k) ==
    [ id |-> k, bands |-> << B("NDVI", [p \in Pixels |-> ObsNDVI(k, p)]),
                            B("RED", [p \in Pixels |-> Whole(10 * k + p)]) >> ]

Observations == {Obs(k) : k \in 1..5}

Series == InjSeqs(Observations, MaxColl)

CompositeCalls ==
    { [collection |-> q, region |-> o.region, band_names |-> o.band_names] :
      q \in Series,
      o \in { [region |-> None, band_names |-> None],
              [region |-> Some({1}), band_names |-> None],
              [region |-> None, band_names |-> Some(<<"NDVI">>)],
              [region |-> None, band_names |-> Some(<<"RED">>)] } }

\* bounds a caller writes into an interval_mean_xx_yy or percentile_xx spec
PctlGiven == {-5, 0, 50, 100}

\* 'interval_mean_{}_{}'.format(a, b)
IntervalSpec(a, b) == <<"i", "n", "t", "e", "r", "v", "a", "l", "_", "m", "e", "a", "n", "_">> \o IntToStr(a) \o <<Under>> \o IntToStr(b)

\* 'percentile_{}'.format(a)
PercentileSpec(a) == <<"p", "e", "r", "c", "e", "n", "t", "i", "l", "e", "_">> \o IntToStr(a)

ReducerSpecs ==
    { Some(<<"m", "e", "a", "n">>), Some(<<"m", "e", "d", "i", "a", "n">>), Some(<<"m", "i", "n">>), Some(<<"m", "a", "x">>), Some(<<"s", "u", "m">>),
      Some(<<"r", "m", "s">>), Some(<<"d", "i", "a", "g">>), Some(<<"b", "o", "g", "u", "s">>), Some(<<"M", "e", "d", "i", "a", "n">>), None,
      Some(<<"p", "e", "r", "c", "e", "n", "t", "i", "l", "e">>), Some(<<"p", "e", "r", "c", "e", "n", "t", "i", "l", "e", "_">> \o <<"x">>),
      Some(<<"p", "e", "r", "c", "e", "n", "t", "i", "l", "e", "_">> \o <<"1", Under, "0">>),
      Some(<<"i", "n", "t", "e", "r", "v", "a", "l", "_", "m", "e", "a", "n", "_">> \o <<"2", "0">>) }
    \cup { Some(PercentileSpec(a)) : a \in PctlGiven }
    \cup { Some(IntervalSpec(a, b)) : a, b \in PctlGiven }

Helpers ==
    { [InitSelf EXCEPT !.composite_function = f, !.composite_index = x,
                       !.scale_factor = sf] :
      f \in ReducerSpecs, x \in {None, Some("NDVI"), Some("RED")},
      sf \in {Whole(1), Whole(2)} }

(***************************************************************************)
(* Export pipeline: export_coll_to_drive and export_image_to_drive.        *)
(*                                                                         *)
(* A raster of the export catalogue is what ee.Image(img).getInfo() and    *)
(* filterBounds see of it: its 'id' (None for a computed image, which has  *)
(* no 'id' key), the crs and crs_transform[0] of its first band, its       *)
(* system:footprint coordinates, and whether it intersects the region.     *)
(***************************************************************************)
ExportRasters ==
    { [id |-> Some(<<"a", Slash, "b">>), crs |-> "EPSG:32610", crs_transform0 |-> 30,
       footprint |-> "fp1", inb |-> TRUE],
      [id |-> Some(<<"a", Under, "b">>), crs |-> "EPSG:32611", crs_transform0 |-> 10,
       footprint |-> "fp2", inb |-> TRUE],
      [id |-> Some(<<"c", Slash, "d", Slash, "e">>), crs |-> "EPSG:32610", crs_transform0 |-> 30,
       footprint |-> "fp3", inb |-> FALSE],
      [id |-> None, crs |-> "EPSG:4326", crs_transform0 |-> 500,
       footprint |-> "fp4", inb |-> TRUE] }

ExportCollections == InjSeqs(ExportRasters, MaxColl)

\* region argument: None, or an ee object with the 'type' its getInfo() reports
\* (an ee.Geometry reports its GeoJSON type) and the coordinates the code reads
Regions ==
    { None,
      Some([kind |-> "Geometry", type |-> "Polygon", coords |-> "geom"]),
      Some([kind |-> "Feature", type |-> "Feature", coords |-> "feat"]),
      Some([kind |-> "FeatureCollection", type |-> "FeatureCollection", coords |-> "feat0"]) }

ExportArgs ==
    [ folder : {None, Some("drive")}, scale : {None, Some(250)},
      crs : {None, Some("EPSG:4326")}, region : Regions,
      verbose : BOOLEAN, save_metadata : BOOLEAN ]

NoArgs == [folder |-> None, scale |-> None, crs |-> None, region |-> None,
           verbose |-> FALSE, save_metadata |-> TRUE]

\* caller: who called export_image_to_drive ("loop" or "top")
NoLocals == [caller |-> "top", img |-> None, img_id |-> None, crs |-> None,
             scale |-> None, region_geom |-> None, clipped |-> FALSE]

\* export_coll_to_drive, lines 574-581: filter by region, fetch the size (a
\* blocking getInfo that can fail), announce it, list the collection.
\* The engine's answer to filterBounds(None) is not fixed by this code: the
\* size query either fails or sees the unfiltered collection.
export_coll_to_drive(collection, a) ==
    /\ pc = "idle"
    /\ args' = a
    /\ \E ok \in BOOLEAN :
         IF ok
         THEN /\ coll_list' = IF a.region = None THEN collection
                              ELSE filterBounds(collection)
              /\ coll_size' = Len(coll_list')
              /\ stdout' = <<"Exporting n images from this collection.">>
              /\ img_indx' = 0
              /\ pc' = "loop"
              /\ raised' = "none"
         ELSE /\ pc' = "raised"
              /\ raised' = "EEException"
              /\ coll_list' = <<>>
              /\ coll_size' = 0
              /\ stdout' = <<>>
              /\ img_indx' = 0
    /\ img_loc' = NoLocals
    /\ tasks' = <<>>
    /\ files' = <<>>
    /\ warned' = <<>>
    /\ op' = "export_coll_to_drive"
    /\ UNCHANGED <<self, call, date_filter, filtered, coll, out_img, reducer>>

\* coll_list.get(i), with i incorrectly counted from the end of the list
ListGetReversed(q, i) == q[Len(q) - i]

\* coll_list.get(i): the i-th element, counted from 0
ListGet(q, i) == q[i + 1]

\* line 584-585: the loop head; img = ee.Image(coll_list.get(img_indx))
LoopNext ==
    /\ pc = "loop"
    /\ IF img_indx < coll_size
       THEN /\ img_loc' = [NoLocals EXCEPT !.img = Some(ListGet(coll_list, img_indx)),
                                          !.caller = "loop"]
            /\ pc' = "getInfo"
       ELSE /\ img_loc' = NoLocals
            /\ pc' = "done"
    /\ UNCHANGED <<args, coll_list, coll_size, img_indx, tasks, files, stdout, raised, warned>>
    /\ UNCHANGED helperVars

\* export_image_to_drive called directly on one raster
export_image_to_drive(img, a) ==
    /\ pc = "idle"
    /\ args' = a
    /\ img_loc' = [NoLocals EXCEPT !.img = Some(img)]
    /\ pc' = "getInfo"
    /\ coll_list' = <<>>
    /\ coll_size' = 0
    /\ img_indx' = 0
    /\ tasks' = <<>>
    /\ files' = <<>>
    /\ stdout' = <<>>
    /\ raised' = "none"
    /\ warned' = <<>>
    /\ op' = "export_image_to_drive"
    /\ UNCHANGED <<self, call, date_filter, filtered, coll, out_img, reducer>>

\* img_prop['id'].replace('/', '_')
ImgId(r) == ReplaceChar(Val(r.id), Slash, Under)

\* Where a finished (or failed) export_image_to_drive leaves its caller: the
\* loop of export_coll_to_drive has no try/except, so an exception ends it.
Raise(e) ==
    /\ pc' = "raised"
    /\ raised' = e

\* lines 510-523: the export region, and whether the fallback warning is given
RegionType(region) == Val(region).type
KnownRegionType(region) == RegionType(region) \in {"FeatureCollection", "Feature", "Geometry"}
RegionGeom(r, region) ==
    IF region = None THEN r.footprint
    ELSE IF KnownRegionType(region) THEN Val(region).coords
    ELSE r.footprint

\* lines 499-523: fetch the metadata once, resolve crs, scale and region
ResolveParams ==
    /\ pc = "getInfo"
    /\ LET r == Val(img_loc.img) IN
       \E info_ok, region_ok \in BOOLEAN :
         IF ~info_ok
         THEN Raise("EEException") /\ UNCHANGED <<img_loc, warned>>
         ELSE IF r.id = None
         THEN Raise("KeyError") /\ UNCHANGED <<img_loc, warned>>
         ELSE IF args.region # None /\ ~region_ok
         THEN Raise("EEException") /\ UNCHANGED <<img_loc, warned>>
         ELSE /\ img_loc' =
                   [caller |-> img_loc.caller,
                    img |-> img_loc.img,
                    img_id |-> Some(ImgId(r)),
                    crs |-> IF args.crs = None THEN Some(r.crs) ELSE args.crs,
                    scale |-> IF args.scale = None THEN Some(r.crs_transform0)
                              ELSE args.scale,
                    region_geom |-> Some(RegionGeom(r, args.region)),
                    clipped |-> args.region # None]
              /\ warned' = IF args.region # None /\ ~KnownRegionType(args.region)
                           THEN Append(warned, "Invalid geometry, using image footprint for export.")
                           ELSE warned
              /\ pc' = "announce"
              /\ UNCHANGED raised
    /\ UNCHANGED <<args, coll_list, coll_size, img_indx, tasks, files, stdout>>
    /\ UNCHANGED helperVars

\* lines 525-527: 'Exporting: ' + folder + '/' + img_id, then the metadata;
\* folder + '/' is a TypeError when folder is None
Announce ==
    /\ pc = "announce"
    /\ IF ~args.verbose
       THEN pc' = "toDrive" /\ UNCHANGED <<stdout, raised>>
       ELSE IF args.folder = None
       THEN Raise("TypeError") /\ UNCHANGED stdout
       ELSE /\ stdout' = stdout \o <<"Exporting: folder/img_id", "metadata_str">>
            /\ pc' = "toDrive"
            /\ UNCHANGED raised
    /\ UNCHANGED <<args, coll_list, coll_size, img_indx, img_loc, tasks, files, warned>>
    /\ UNCHANGED helperVars

\* the job descriptor of lines 529-539
Task(loc, a) ==
    [ image |-> Val(loc.img), clipped |-> loc.clipped, fileNamePrefix |-> Val(loc.img_id),
      folder |-> a.folder, scale |-> Val(loc.scale), crs |-> Val(loc.crs),
      region |-> Val(loc.region_geom) ]

\* lines 529-541: build the job and start it; task.start() can fail
StartTask ==
    /\ pc = "toDrive"
    /\ \E ok \in BOOLEAN :
         IF ok
         THEN /\ tasks' = Append(tasks, Task(img_loc, args))
              /\ pc' = "report"
              /\ UNCHANGED raised
         ELSE Raise("EEException") /\ UNCHANGED tasks
    /\ UNCHANGED <<args, coll_list, coll_size, img_indx, img_loc, files, stdout, warned>>
    /\ UNCHANGED helperVars

\* lines 542-543: sys.stdout.write(task) is handed a Task, not a str
ReportTask ==
    /\ pc = "report"
    /\ IF args.verbose
       THEN Raise("TypeError")
       ELSE pc' = "metadata" /\ UNCHANGED raised
    /\ UNCHANGED <<args, coll_list, coll_size, img_indx, img_loc, tasks, files, stdout, warned>>
    /\ UNCHANGED helperVars

\* lines 545-547 and the return to the caller: the sidecar, when asked for;
\* back in export_coll_to_drive the loop goes on to the next index
SaveMetadata ==
    /\ pc = "metadata"
    /\ \E ok \in BOOLEAN :
         IF args.save_metadata /\ ~ok
         THEN Raise("IOError") /\ UNCHANGED <<files, img_indx>>
         ELSE /\ files' = IF args.save_metadata
                          THEN Append(files, Val(img_loc.img_id)) ELSE files
              /\ IF img_loc.caller = "loop"
                 THEN pc' = "loop" /\ img_indx' = img_indx + 1
                 ELSE pc' = "done" /\ UNCHANGED img_indx
              /\ UNCHANGED raised
    /\ UNCHANGED <<args, coll_list, coll_size, img_loc, tasks, stdout, warned>>
    /\ UNCHANGED helperVars

(***************************************************************************)
(* The export specification: one export call, from the idle state.         *)
(***************************************************************************)
InitExport ==
    /\ self = InitSelf
    /\ op = "none"
    /\ call = None
    /\ date_filter = None
    /\ filtered = <<>>
    /\ coll = <<>>
    /\ out_img = None
    /\ reducer = None
    /\ warned = <<>>
    /\ raised = "none"
    /\ pc = "idle"
    /\ args = NoArgs
    /\ coll_list = <<>>
    /\ coll_size = 0
    /\ img_indx = 0
    /\ img_loc = NoLocals
    /\ tasks = <<>>
    /\ files = <<>>
    /\ stdout = <<>>

CallExportColl == \E c \in ExportCollections, a \in ExportArgs : export_coll_to_drive(c, a)
CallExportImage == \E r \in ExportRasters, a \in ExportArgs : export_image_to_drive(r, a)

NextExport ==
    \/ CallExportColl
    \/ CallExportImage
    \/ LoopNext
    \/ ResolveParams
    \/ Announce
    \/ StartTask
    \/ ReportTask
    \/ SaveMetadata

SpecExport == InitExport /\ [][NextExport]_vars

\* position of raster r in the listed collection (0 when absent)
Pos(r) == IF \E k \in 1..Len(coll_list) : coll_list[k] = r
          THEN CHOOSE k \in 1..Len(coll_list) : coll_list[k] = r ELSE 0

HasTask(r) == \E t \in 1..Len(tasks) : tasks[t].image = r

\* C1 (as claimed): when the export of raster k of the listed collection
\* fails, a job is still started for every raster k+1..N.  The failing raster is
\* the one at the loop index when the exception was raised.
C1_LaterJobsStillSubmitted ==
    (op = "export_coll_to_drive" /\ pc = "raised" /\ img_loc.caller = "loop")
        => \A k \in (img_indx + 2)..coll_size : HasTask(coll_list[k])

\* C10: jobs are started in the enumeration order of the filtered collection,
\* and no raster's job is started twice: the rasters of the started jobs sit at
\* strictly increasing positions of the listed collection.
C10_JobsInEnumerationOrder ==
    op = "export_coll_to_drive" =>
        /\ \A a \in 1..Len(tasks) : Pos(tasks[a].image) > 0
        /\ \A a, b \in 1..Len(tasks) :
              a < b => Pos(tasks[a].image) < Pos(tasks[b].image)

\* C10 witness: a collection export that ended having started two jobs
C10_Witness ==
    op = "export_coll_to_drive" /\ pc = "done" /\ coll_size = 2 /\ Len(tasks) = 2

\* C16 (as claimed): every started job has the crs and the scale given, or
\* those of the raster's first band when none is given, and as its region the
\* coordinates of the region given (of its first feature for a feature
\* collection), or the raster's footprint when no region is given.
C16_JobParametersResolved ==
    \A t \in 1..Len(tasks) :
        /\ tasks[t].crs = IF args.crs = None THEN tasks[t].image.crs ELSE Val(args.crs)
        /\ tasks[t].scale = IF args.scale = None THEN tasks[t].image.crs_transform0
                            ELSE Val(args.scale)
        /\ tasks[t].region = IF args.region = None THEN tasks[t].image.footprint
                             ELSE Val(args.region).coords

\* whether a sidecar of that name was written
HasFile(name) == \E f \in 1..Len(files) : files[f] = name

\* C18 (as claimed): when an export call has ended, every raster whose job was
\* started has its sidecar, named as the job's file-name, if save_metadata is
\* true (unless writing that very file failed) and no sidecar exists if it is
\* false; at all times a sidecar exists only for a raster whose job was
\* started.
C18_SidecarGatedByFlag ==
    /\ \A f \in 1..Len(files) :
          \E t \in 1..Len(tasks) : tasks[t].fileNamePrefix = files[f]
    /\ ~args.save_metadata => files = <<>>
    /\ (pc \in {"done", "raised"} /\ args.save_metadata) =>
          \A t \in 1..Len(tasks) :
              \/ HasFile(tasks[t].fileNamePrefix)
              \/ t = Len(tasks) /\ raised = "IOError"

\* the job export_image_to_drive starts for raster r under the arguments a
JobFor(r, a) ==
    [ image |-> r, clipped |-> a.region # None, fileNamePrefix |-> ImgId(r),
      folder |-> a.folder,
      scale |-> IF a.scale = None THEN r.crs_transform0 ELSE Val(a.scale),
      crs |-> IF a.crs = None THEN r.crs ELSE Val(a.crs),
      region |-> RegionGeom(r, a.region) ]

RECURSIVE QuietRun(_, _, _)
\* the jobs, the sidecars and the outcome of exporting the rasters of q in
\* order with verbose=False when no call to the engine or the disk fails:
\* a raster without an 'id' ends the run with KeyError
QuietRun(q, a, acc) ==
    IF q = <<>> THEN acc
    ELSE IF Head(q).id = None THEN [acc EXCEPT !.raised = "KeyError"]
    ELSE QuietRun(Tail(q), a,
            [acc EXCEPT !.tasks = Append(@, JobFor(Head(q), a)),
                        !.files = IF a.save_metadata THEN Append(@, ImgId(Head(q))) ELSE @])

\* the rasters an export call that got as far as its first raster works on
Exported == IF op = "export_coll_to_drive" THEN coll_list ELSE <<Val(img_loc.img)>>

\* C20 (as claimed): an export call that ended without a failure of the engine
\* or of the disk has started the jobs, written the sidecars and reached the
\* outcome of the same call with verbose=False, whatever its verbose flag is.
C20_VerboseOnlyDisplays ==
    (op \in {"export_coll_to_drive", "export_image_to_drive"}
       /\ pc \in {"done", "raised"} /\ raised \notin {"EEException", "IOError"}) =>
        LET quiet == QuietRun(Exported, args, [tasks |-> <<>>, files |-> <<>>, raised |-> "none"])
        IN  /\ tasks = quiet.tasks
            /\ files = quiet.files
            /\ raised = quiet.raised

(***************************************************************************)
(* The collection-builder specification: get_images called on a freshly    *)
(* constructed helper.                                                     *)
(***************************************************************************)
\* the first call on the instance
CallGetImages == op = "none" /\ \E c \in GetImagesCalls : get_images(c)

InitImages == InitExport

NextImages == CallGetImages

SpecImages == InitImages /\ [][NextImages]_vars

Args == Val(call)
Elems(q) == {q[i] : i \in 1..Len(q)}
YearRange(y) == <<Some(Date(y, 1, 1)), Some(Date(y, 12, 31))>>
InRange(img, dr) == ~DateLess(img.time, Val(dr[1])) /\ DateLess(img.time, Val(dr[2]))

\* C2 (as claimed): whenever an absolute range (start_date, end_date) is given,
\* with or without a year, the collection is filtered by that range.
C2_AbsoluteRangeTakesPrecedence ==
    (op = "get_images" /\ Args.start_date # None /\ Args.end_date # None)
        => /\ date_filter = Some(<<Args.start_date, Args.end_date>>)
           /\ \A img \in Elems(filtered) : InRange(img, <<Args.start_date, Args.end_date>>)

\* C2 (amended): a given year takes precedence: the collection is filtered by
\* (year-01-01, year-12-31) whatever start_date and end_date are; the absolute
\* range is used only when no year is given and both its ends are; otherwise
\* no date filter is applied.
C2_YearTakesPrecedence ==
    op = "get_images" =>
        /\ Args.year # None =>
             /\ date_filter = Some(YearRange(Val(Args.year)))
             /\ \A img \in Elems(filtered) : InRange(img, YearRange(Val(Args.year)))
        /\ (Args.year = None /\ Args.start_date # None /\ Args.end_date # None) =>
             /\ date_filter = Some(<<Args.start_date, Args.end_date>>)
             /\ \A img \in Elems(filtered) : InRange(img, <<Args.start_date, Args.end_date>>)
        /\ (Args.year = None /\ (Args.start_date = None \/ Args.end_date = None)) =>
             date_filter = None

\* C2 witness: a call with a year and a different absolute range that selects
\* some image and leaves out one the absolute range would have kept
C2_Witness ==
    /\ op = "get_images"
    /\ Args.year # None /\ Args.start_date # None /\ Args.end_date # None
    /\ YearRange(Val(Args.year)) # <<Args.start_date, Args.end_date>>
    /\ filtered # <<>>
    /\ \E img \in Elems(Args.collection) :
          /\ InRange(img, <<Args.start_date, Args.end_date>>)
          /\ ~InRange(img, YearRange(Val(Args.year)))

\* the positions of the map= arguments whose value names no per-image method
Unrecognized(kw) == {i \in 1..Len(kw) : kw[i][1] = "map" /\ kw[i][2] \notin MapMethods}

\* C3 (as claimed): a requested transform name that is not a recognized
\* transform raises nothing, leaves the filtered collection as it is and is
\* reported by a warning that names it.
C3_UnrecognizedTransformWarned ==
    (op = "get_images" /\ Unrecognized(Args.kwargs) # {}) =>
        /\ raised = "none"
        /\ Len(Args.kwargs) = 1 => coll = filtered
        /\ \A i \in Unrecognized(Args.kwargs) :
              \E w \in 1..Len(warned) : warned[w].arg = Args.kwargs[i][2]

SupportedSensors == {"LANDSAT_5", "LANDSAT_7", "LANDSAT_8"}

\* C4 (as claimed): harmonizing an image whose sensor identifier is none of the
\* three supported ones is a reported error, never the output of a sensor's
\* transform.
C4_UnknownSensorIsError ==
    (op = "get_images" /\ raised = "none"
       /\ Args.kwargs = << <<"map", "ls_sr_band_correction">> >>) =>
        \A i \in 1..Len(filtered) :
            filtered[i].props.SATELLITE \notin SupportedSensors => IsError(coll[i])

LastDayOfLeapYear(t) == IsLeap(t.y) /\ t.m = 12 /\ t.d = 31

\* C9 (as claimed): with start_julian = 1 and end_julian = 365 the day-of-year
\* filter selects every image that passed the spatial and date-range filters.
C9_FullYearWindowIsNoOp ==
    (op = "get_images" /\ Args.start_julian = 1 /\ Args.end_julian = 365)
        => filtered = PreFiltered(Args)

\* C9 (amended): with start_julian = 1 and end_julian = 365 the day-of-year
\* filter selects, in order, exactly the images that passed the spatial and
\* date-range filters and were not acquired on day 366 (31 December) of a leap
\* year.
C9_FullYearWindowDropsDay366 ==
    (op = "get_images" /\ Args.start_julian = 1 /\ Args.end_julian = 365)
        => filtered = SelectSeq(PreFiltered(Args),
                                LAMBDA img : ~LastDayOfLeapYear(img.time))

\* C9 witness: the default window applied to a collection holding a scene of
\* day 366 and a scene of day 365, after filters that let both through
C9_Witness ==
    /\ op = "get_images" /\ Args.start_julian = 1 /\ Args.end_julian = 365
    /\ \E img \in Elems(PreFiltered(Args)) : LastDayOfLeapYear(img.time)
    /\ \E img \in Elems(filtered) : DayOfYear(img.time) = 365

\* a scene as the catalogue delivers it: the sensor's native band names
IsNative(img) == BandNames(img) = [k \in 1..Len(NativeBands) |-> <<NativeBands[k], <<>>>>]

\* the calls that map one per-image method over the filtered collection
MapsOnly(name) ==
    op = "get_images" /\ raised = "none" /\ Args.kwargs = << <<"map", name>> >>

\* C11: for a scene of each of the three supported sensors the output of
\* ls_sr_band_correction has exactly the bands BLUE, GREEN, RED, NIR, SWIR1,
\* SWIR2, PIXEL_QA, RADSAT_QA, in that order, and its two quality bands hold
\* the input's pixel_qa and radsat_qa values unchanged.
C11_HarmonizedSchema ==
    MapsOnly("ls_sr_band_correction") =>
        \A i \in 1..Len(filtered) :
            (filtered[i].props.SATELLITE \in SupportedSensors /\ IsNative(filtered[i])) =>
                /\ ~IsError(coll[i])
                /\ BandNames(coll[i]) =
                      << <<"BLUE", <<>>>>, <<"GREEN", <<>>>>, <<"RED", <<>>>>, <<"NIR", <<>>>>,
                         <<"SWIR1", <<>>>>, <<"SWIR2", <<>>>>, <<"PIXEL_QA", <<>>>>,
                         <<"RADSAT_QA", <<>>>> >>
                /\ Band(coll[i], "PIXEL_QA") = Band(filtered[i], "pixel_qa")
                /\ Band(coll[i], "RADSAT_QA") = Band(filtered[i], "radsat_qa")

\* C11 witness: a harmonized collection of two native scenes of different
\* supported sensors, one of them a sensor whose bands are corrected
C11_Witness ==
    /\ MapsOnly("ls_sr_band_correction")
    /\ Len(filtered) = 2
    /\ \A i \in 1..2 : filtered[i].props.SATELLITE \in SupportedSensors /\ IsNative(filtered[i])
    /\ filtered[1].props.SATELLITE # filtered[2].props.SATELLITE
    /\ \E i \in 1..2 : filtered[i].props.SATELLITE = "LANDSAT_7"
    /\ \E i \in 1..2 : Band(coll[i], "BLUE") # Band(filtered[i], "B1")

\* native band, canonical name, gain in 1/100000 and offset of the corrected
\* bands of Landsat 8 (lines 222-227) and Landsat 5 (lines 245-250)
Ls8Params ==
    << <<"B2", "BLUE", 88500, 183>>, <<"B3", "GREEN", 93170, 123>>,
       <<"B4", "RED", 93720, 123>>, <<"B5", "NIR", 83390, 448>>,
       <<"B6", "SWIR1", 86390, 306>>, <<"B7", "SWIR2", 91650, 116>> >>
Ls5Params ==
    << <<"B1", "BLUE", 91996, 37>>, <<"B2", "GREEN", 92764, 84>>,
       <<"B3", "RED", 88810, 98>>, <<"B4", "NIR", 95057, 38>>,
       <<"B5", "SWIR1", 96525, 29>>, <<"B7", "SWIR2", 99601, 20>> >>

SensorParams(sat) == IF sat = "LANDSAT_8" THEN Ls8Params ELSE Ls5Params

\* the integer nearest to (v * gain / 100000 + offset), a half going up, and
\* the integer part of it, for v >= 0
RoundedAffine(v, gain, offset) == (2 * (v * gain + offset * 100000) + 100000) \div 200000
TruncatedAffine(v, gain, offset) == (v * gain + offset * 100000) \div 100000

\* the harmonized scenes of the two corrected sensors: positions of the native
\* Landsat 8 and Landsat 5 scenes in a collection mapped by ls_sr_band_correction
Corrected ==
    IF MapsOnly("ls_sr_band_correction")
    THEN {i \in 1..Len(filtered) :
            filtered[i].props.SATELLITE \in {"LANDSAT_8", "LANDSAT_5"} /\ IsNative(filtered[i])}
    ELSE {}

\* C12 (as claimed): every corrected band is round(native * gain + offset),
\* and a Landsat 8 pixel with native blue 100 gets BLUE = 273.
C12_RoundedAffineMap ==
    \A i \in Corrected : \A p \in Pixels :
        LET par == SensorParams(filtered[i].props.SATELLITE)
        IN  /\ \A k \in 1..Len(par) :
                 Band(coll[i], par[k][2])[p] =
                    Whole(RoundedAffine(Band(filtered[i], par[k][1])[p][1], par[k][3], par[k][4]))
            /\ (filtered[i].props.SATELLITE = "LANDSAT_8"
                  /\ Band(filtered[i], "B2")[p] = Whole(100))
                    => Band(coll[i], "BLUE")[p] = Whole(273)

\* C12 (amended): every corrected band is the integer part of
\* native * gain + offset (the 16-bit cast drops the fraction), and a Landsat 8
\* pixel with native blue 100 gets BLUE = 271, the integer part of 271.5.
C12_TruncatedAffineMap ==
    \A i \in Corrected : \A p \in Pixels :
        LET par == SensorParams(filtered[i].props.SATELLITE)
        IN  /\ \A k \in 1..Len(par) :
                 Band(coll[i], par[k][2])[p] =
                    Whole(TruncatedAffine(Band(filtered[i], par[k][1])[p][1], par[k][3], par[k][4]))
            /\ (filtered[i].props.SATELLITE = "LANDSAT_8"
                  /\ Band(filtered[i], "B2")[p] = Whole(100))
                    => Band(coll[i], "BLUE")[p] = Whole(271)

\* C12 witness: a harmonized Landsat 8 scene with a pixel of native blue 100,
\* next to a harmonized Landsat 5 scene
C12_Witness ==
    /\ \E i \in Corrected : \E p \in Pixels :
          /\ filtered[i].props.SATELLITE = "LANDSAT_8"
          /\ Band(filtered[i], "B2")[p] = Whole(100)
          /\ Band(coll[i], "BLUE")[p] = Whole(271)
    /\ \E i \in Corrected : filtered[i].props.SATELLITE = "LANDSAT_5"

RecognizedIndices == {"EVI", "NDVI", "SAVI", "NDWI", "NBR", "VARI"}

\* the requested names that are recognized indices, in request order
Recognized(names) == SelectSeq(names, LAMBDA n : n \in RecognizedIndices)

\* the calls that add indices from a stored index_list
AddsIndices ==
    /\ op = "get_images" /\ Args.kwargs = << <<"map", "add_indices">> >>
    /\ self.index_list # None

\* C13 (as claimed): add_indices never raises; it keeps the bands of the input
\* as they are and appends one band per requested name that is a recognized
\* index, in request order, and nothing for any other requested name.
C13_UnrecognizedIndexSkipped ==
    AddsIndices =>
        /\ raised = "none"
        /\ Len(coll) = Len(filtered)
        /\ \A i \in 1..Len(coll) : ~IsError(coll[i]) =>
              LET added == Recognized(Val(self.index_list))
                  n == Len(filtered[i].bands)
              IN  /\ SubSeq(coll[i].bands, 1, n) = filtered[i].bands
                  /\ BandNames([bands |-> SubSeq(coll[i].bands, n + 1, Len(coll[i].bands))])
                        = [k \in 1..Len(added) |-> <<added[k], <<>>>>]

\* whether bit 1 of a quality value is set
Bit1Set(v) == v # NoData /\ (v[1] \div 2) % 2 = 1

\* whether the valid-pixel mask keeps pixel p of img
Clear(img, p) ==
    /\ Bit1Set(Band(img, "PIXEL_QA")[p])
    /\ Band(img, "RADSAT_QA")[p] = Whole(0)

\* the positions of the scenes in the canonical schema in a collection mapped
\* by ls_sr_only_clear
Masked ==
    IF MapsOnly("ls_sr_only_clear")
    THEN {i \in 1..Len(filtered) :
            HasBand(filtered[i], "PIXEL_QA") /\ HasBand(filtered[i], "RADSAT_QA")}
    ELSE {}

\* C15: ls_sr_only_clear keeps the bands of the image and, in every band, the
\* value of each pixel whose PIXEL_QA has bit 1 set and whose RADSAT_QA is 0
\* (a pixel masked before stays masked); every other pixel is no-data in every
\* band.
C15_ValidPixelMask ==
    \A i \in Masked :
        /\ ~IsError(coll[i])
        /\ BandNames(coll[i]) = BandNames(filtered[i])
        /\ \A b \in 1..Len(filtered[i].bands) : \A p \in Pixels :
              coll[i].bands[b].px[p] =
                 IF Clear(filtered[i], p) THEN filtered[i].bands[b].px[p] ELSE NoData

\* C15 witness: a masked collection with a pixel that is kept, a pixel kept
\* whose band was masked before, a pixel hidden for its quality bit alone and a
\* pixel hidden for saturation alone
C15_Witness ==
    /\ \E i \in Masked : \E p \in Pixels :
          /\ Clear(filtered[i], p)
          /\ \E b \in 1..Len(coll[i].bands) : coll[i].bands[b].px[p] # NoData
          /\ \E b \in 1..Len(coll[i].bands) : filtered[i].bands[b].px[p] = NoData
    /\ \E i \in Masked : \E p \in Pixels :
          /\ ~Bit1Set(Band(filtered[i], "PIXEL_QA")[p])
          /\ Band(filtered[i], "RADSAT_QA")[p] = Whole(0)
          /\ Band(filtered[i], "RED")[p] # NoData /\ Band(coll[i], "RED")[p] = NoData
    /\ \E i \in Masked : \E p \in Pixels :
          /\ Bit1Set(Band(filtered[i], "PIXEL_QA")[p])
          /\ Band(filtered[i], "RADSAT_QA")[p] # Whole(0)
          /\ Band(filtered[i], "RED")[p] # NoData /\ Band(coll[i], "RED")[p] = NoData

(***************************************************************************)
(* The compositor specification: composite_image called on a helper        *)
(* constructed with any of the configurations.                             *)
(***************************************************************************)
InitComposite ==
    /\ self \in Helpers
    /\ op = "none"
    /\ call = None
    /\ date_filter = None
    /\ filtered = <<>>
    /\ coll = <<>>
    /\ out_img = None
    /\ reducer = None
    /\ warned = <<>>
    /\ raised = "none"
    /\ pc = "idle"
    /\ args = NoArgs
    /\ coll_list = <<>>
    /\ coll_size = 0
    /\ img_indx = 0
    /\ img_loc = NoLocals
    /\ tasks = <<>>
    /\ files = <<>>
    /\ stdout = <<>>

\* the first call on the instance
CallComposite == op = "none" /\ \E c \in CompositeCalls : composite_image(c)

NextComposite == CallComposite

SpecComposite == InitComposite /\ [][NextComposite]_vars

Out == Val(out_img)
Returned == op = "composite_image" /\ raised = "none" /\ ~IsError(Out)

\* the reducer specs of the model that name no reducer
UnknownSpecs == {Some(<<"b", "o", "g", "u", "s">>), Some(<<"M", "e", "d", "i", "a", "n">>)}

\* C5: for a reducer spec that names no reducer, composite_image raises
\* nothing, gives the fallback warning, resolves the median reducer and returns
\* a composite that reducer_spec = "median" returns for the same collection and
\* the same remaining configuration.
C5_UnknownReducerIsMedian ==
    (op = "composite_image" /\ self.composite_function \in UnknownSpecs) =>
        /\ raised = "none"
        /\ warned = <<FallbackWarning>>
        /\ reducer = Some(Plain("median"))
        /\ out_img # None
        /\ Out \in Composites([self EXCEPT !.composite_function = Some(<<"m", "e", "d", "i", "a", "n">>)],
                              Args, Plain("median"))

\* C5 witness: a two-image series composed with the spec "bogus"
C5_Witness ==
    /\ op = "composite_image" /\ self.composite_function = Some(<<"b", "o", "g", "u", "s">>)
    /\ Len(Args.collection) = 2 /\ out_img # None /\ ~IsError(Out)

\* the series the composite is taken of: scaled, and restricted to band_names
SeriesOf(slf, c) ==
    IF c.band_names # None
    THEN SelectAll(Scaled(c.collection, slf.scale_factor), Val(c.band_names))
    ELSE Scaled(c.collection, slf.scale_factor)

\* the reduced reference raster at pixel p, and image i's quality score there
RefRaster(q, ref, r, p) ==
    ReduceVals(SelectSeq([i \in 1..Len(q) |-> Band(q[i], ref)[p]],
                         LAMBDA v : v # NoData), r)
Score(q, ref, r, i, p) ==
    IF Band(q[i], ref)[p] = NoData \/ RefRaster(q, ref, r, p) = NoData THEN NoData
    ELSE RNeg(RAbs(RSub(Band(q[i], ref)[p], RefRaster(q, ref, r, p))))

\* pixel p of the output is, in every band, pixel p of image i
TakenFrom(out, q, i, p) ==
    \A b \in 1..Len(out.bands) : out.bands[b].px[p] = q[i].bands[b].px[p]

\* C6: with a reference index, every pixel of the composite carries, in all its
\* bands, the values of one image of the series whose score
\* -|reference value - reduced reference value| no other image exceeds there
\* (a pixel with no scored image is masked); the output has the bands of the
\* input and no 'quality' band.
C6_QualityMosaicPicksBest ==
    (Returned /\ self.composite_index # None /\ Args.collection # <<>>) =>
        LET q == SeriesOf(self, Args)
            ref == Val(self.composite_index)
            r == Val(reducer)
            scored(p) == {i \in 1..Len(q) : Score(q, ref, r, i, p) # NoData}
        IN  /\ BandNames(Out) = BandNames(q[1])
            /\ \A b \in 1..Len(Out.bands) : ~Named(Out.bands[b], "quality")
            /\ \A p \in Pixels :
                 (Args.region = None \/ p \in Val(Args.region)) =>
                   IF scored(p) = {}
                   THEN \A b \in 1..Len(Out.bands) : Out.bands[b].px[p] = NoData
                   ELSE \E i \in scored(p) :
                          /\ \A j \in scored(p) :
                                RLeq(Score(q, ref, r, j, p), Score(q, ref, r, i, p))
                          /\ TakenFrom(Out, q, i, p)

\* C6 witness: a composite of two images that takes pixel 1 from the first
\* image only and pixel 2 from the second image only
C6_Witness ==
    /\ Returned /\ self.composite_index # None
    /\ Len(Args.collection) = 2 /\ Args.band_names = None /\ Args.region = None
    /\ LET q == SeriesOf(self, Args) IN
         /\ TakenFrom(Out, q, 1, 1) /\ ~TakenFrom(Out, q, 2, 1)
         /\ TakenFrom(Out, q, 2, 2) /\ ~TakenFrom(Out, q, 1, 2)

\* a composite of a one-image series around a reference index, of all the
\* bands and unclipped
SingleImage ==
    /\ Returned /\ self.composite_index # None
    /\ Len(Args.collection) = 1 /\ Args.band_names = None /\ Args.region = None

\* C7 (as claimed): the quality mosaic of a one-image series is that image:
\* the same band names and, wherever the reference band has a value to compare
\* with itself, the same pixel values.
C7_SingleImageUnchanged ==
    SingleImage =>
        LET img == Args.collection[1] IN
        /\ BandNames(Out) = BandNames(img)
        /\ \A b \in 1..Len(img.bands), p \in Pixels :
              Band(img, Val(self.composite_index))[p] # NoData =>
                  Out.bands[b].px[p] = img.bands[b].px[p]

\* C7 (amended): the quality mosaic of a one-image series has the image's band
\* names and, at every pixel where the image's reference band is valid, the
\* image's values multiplied by scale_factor.
C7_SingleImageScaled ==
    SingleImage =>
        LET img == Args.collection[1] IN
        /\ BandNames(Out) = BandNames(img)
        /\ \A b \in 1..Len(img.bands), p \in Pixels :
              Band(img, Val(self.composite_index))[p] # NoData =>
                  Out.bands[b].px[p] =
                      IF img.bands[b].px[p] = NoData THEN NoData
                      ELSE RMul(img.bands[b].px[p], self.scale_factor)

\* C7 witness: a one-image composite under a scale factor other than 1
C7_Witness == SingleImage /\ self.scale_factor # Whole(1)

Min(a, b) == IF a <= b THEN a ELSE b
Max(a, b) == IF a >= b THEN a ELSE b

\* C8: for bounds a and b, the spec interval_mean_a_b resolves to the interval
\* mean from min(a, b) to max(a, b), as interval_mean_b_a does, and returns a
\* composite that interval_mean_b_a returns for the same input.
C8_IntervalBoundsOrdered ==
    \A a, b \in PctlGiven :
        (op = "composite_image" /\ self.composite_function = Some(IntervalSpec(a, b))) =>
            /\ raised = "none"
            /\ reducer = Some(Reducer("intervalMean", Min(a, b), Max(a, b)))
            /\ ResolveReducer(Some(IntervalSpec(b, a))).reducer = reducer
            /\ Out \in Composites([self EXCEPT !.composite_function = Some(IntervalSpec(b, a))],
                                  Args, Val(ResolveReducer(Some(IntervalSpec(b, a))).reducer))

\* C8 witness: a two-image series composed with the inverted bounds (100, 0)
C8_Witness ==
    /\ Returned /\ self.composite_function = Some(IntervalSpec(100, 0))
    /\ Len(Args.collection) = 2

\* C14 (as claimed): the percentile or interval-mean reducer composite_image
\* resolves has each bound in 0..100 and its bounds in order.
C14_BoundsWithinRange ==
    (op = "composite_image" /\ reducer # None
       /\ Val(reducer).kind \in {"percentile", "intervalMean"}) =>
        /\ Val(reducer).lo \in 0..100
        /\ Val(reducer).hi \in 0..100
        /\ Val(reducer).lo <= Val(reducer).hi

(***************************************************************************)
(* The session specification: any sequence of get_images and               *)
(* composite_image calls on one helper instance.                           *)
(***************************************************************************)
\* the scene in the canonical schema that intersects the area of interest
CanonicalScene == CHOOSE img \in Catalogue : img.id = "s6"

SessionGetImagesCalls ==
    { [collection |-> <<CanonicalScene>>, bounds |-> None, year |-> None,
       start_date |-> None, end_date |-> None, start_julian |-> 1, end_julian |-> 365,
       index_list |-> x.index_list, scale_factor |-> x.scale_factor, kwargs |-> kw] :
      x \in IndexArgs,
      kw \in { <<>>, << <<"map", "add_indices">> >>, << <<"map", "ls_sr_only_clear">> >>,
               << <<"map", "bogus">> >>, << <<"reduce", "mean">>, <<"map", "add_indices">> >> } }

SessionCompositeCalls ==
    { [collection |-> q, region |-> None, band_names |-> None] :
      q \in { <<Obs(1)>>, <<Obs(3)>>, <<Obs(1), Obs(2)>> } }

InitSession ==
    /\ InitComposite
    /\ self \in { InitSelf,
                   [InitSelf EXCEPT !.composite_index = None,
                                    !.composite_function = Some(<<"s", "u", "m">>)] }

SessionGetImages == \E c \in SessionGetImagesCalls : get_images(c)
SessionComposite == \E c \in SessionCompositeCalls : composite_image(c)

NextSession ==
    \/ SessionGetImages
    \/ SessionComposite

SpecSession == InitSession /\ [][NextSession]_vars

\* whether a call of get_images asks for index addition
MapsAddIndices(c) == \E i \in 1..Len(c.kwargs) : c.kwargs[i] = <<"map", "add_indices">>

\* the configuration after a call of get_images, as the claim gives it
ConfigurationAfter(slf, c) ==
    IF MapsAddIndices(c)
    THEN [slf EXCEPT !.index_list = IF c.index_list # None THEN c.index_list ELSE @,
                     !.scale_factor = IF c.scale_factor # None THEN Val(c.scale_factor) ELSE @]
    ELSE slf

\* the composite of a one-image series is the image multiplied by sf wherever
\* its reference band (if one is configured) is valid
MultipliedBy(out, slf, img, sf) ==
    \A b \in 1..Len(img.bands), p \in Pixels :
        (slf.composite_index = None \/ Band(img, Val(slf.composite_index))[p] # NoData) =>
            out.bands[b].px[p] =
                IF img.bands[b].px[p] = NoData THEN NoData
                ELSE RMul(img.bands[b].px[p], sf)

\* one step of a session, as the claim gives it
ConfigurationFrame ==
    /\ op' = "get_images" => self' = ConfigurationAfter(self, Val(call'))
    /\ op' = "composite_image" =>
          /\ self' = self
          /\ (raised' = "none" /\ ~IsError(Val(out_img')) /\ Len(Val(call').collection) = 1) =>
                MultipliedBy(Val(out_img'), self, Val(call').collection[1], self.scale_factor)
    /\ (op = "get_images" /\ MapsAddIndices(Args) /\ Args.scale_factor # None
          /\ op' = "composite_image" /\ raised' = "none" /\ ~IsError(Val(out_img'))
          /\ Len(Val(call').collection) = 1) =>
             MultipliedBy(Val(out_img'), self, Val(call').collection[1], Val(Args.scale_factor))

\* C19: in any sequence of get_images and composite_image calls on one helper,
\* a get_images call with map='add_indices' overwrites index_list and
\* scale_factor with each argument that is not None and leaves the rest of the
\* configuration alone, every other call leaves the whole configuration
\* unchanged, and composite_image multiplies every image by the scale_factor
\* in force, which is the one the last index-adding get_images call passed.
C19_ConfigurationFrame == [][ConfigurationFrame]_vars

\* C19 witness: a composite returned under a scale factor and an index list
\* that an earlier get_images call stored on the instance
C19_Witness ==
    /\ Returned
    /\ self.scale_factor = Whole(10000) /\ self.index_list = Some(<<"EVI">>)
    /\ Len(Args.collection) = 1
    /\ \E b \in 1..Len(Out.bands), p \in Pixels :
          /\ Out.bands[b].px[p] # NoData
          /\ Out.bands[b].px[p] = RMul(Args.collection[1].bands[b].px[p], Whole(10000))

\* the names of the bands composite_image reduces: band_names, or all the
\* bands of the images
ReducedNames(c) ==
    IF c.band_names # None THEN Val(c.band_names)
    ELSE [k \in 1..Len(c.collection[1].bands) |-> c.collection[1].bands[k].name]

\* the values band name holds at pixel p across the series, masked ones left
\* out, each multiplied by sf
ScaledVals(q, name, p, sf) ==
    LET valid == SelectSeq([i \in 1..Len(q) |-> Band(q[i], name)[p]], LAMBDA v : v # NoData)
    IN  [i \in 1..Len(valid) |-> RMul(valid[i], sf)]

Squares(vals) == [i \in 1..Len(vals) |-> RMul(vals[i], vals[i])]

====
